---- MODULE Spec2Model ----
(***************************************************************************)
(* Model of src/bug_fixing_agent.py: the scenario orchestration loop       *)
(* (Orchestrator.loop_over_bug_scenarios), the guideline ledger            *)
(* (Guidelines.load / save / merge) and the coach's result parsing         *)
(* (PromptRefinerAgent.refine).                                            *)
(*                                                                         *)
(* Text is modelled as a sequence of characters over a small alphabet, so  *)
(* that strip(), the bullet regular expressions and the save/load file     *)
(* format are computed as the code computes them.                          *)
(***************************************************************************)
EXTENDS Integers, Sequences, FiniteSets, TLC

(* ---------------------------------------------------------------------- *)
(* Bounds of the model                                                     *)
(* ---------------------------------------------------------------------- *)

\* Number of scenarios handed to loop_over_bug_scenarios.
NumScenarios == 2

\* Largest value of --max-attempts explored (budgets range over 0..MaxAttempts).
MaxAttempts == 2

\* Largest value of --max-refines explored (budgets range over 0..MaxRefines).
MaxRefines == 2

\* Number of process runs over the same guideline store (startup + restarts).
MaxRuns == 2

(* ---------------------------------------------------------------------- *)
(* Text                                                                    *)
(* ---------------------------------------------------------------------- *)

NL == "\n"
SP == " "
DASH == "-"
STAR == "*"

\* str.strip() with no argument removes leading/trailing whitespace, line
\* breaks included.
IsWs(c) == c \in {SP, NL}

RECURSIVE LStrip(_)
LStrip(s) == IF s = <<>> THEN <<>>
             ELSE IF IsWs(Head(s)) THEN LStrip(Tail(s)) ELSE s

RECURSIVE RStrip(_)
RStrip(s) == IF s = <<>> THEN <<>>
             ELSE IF IsWs(s[Len(s)]) THEN RStrip(SubSeq(s, 1, Len(s) - 1)) ELSE s

Strip(s) == RStrip(LStrip(s))

\* The lines of a text: the segments between line breaks (a final line break
\* opens no further line).
RECURSIVE SplitLinesAcc(_, _)
SplitLinesAcc(s, cur) ==
    IF s = <<>> THEN (IF cur = <<>> THEN <<>> ELSE <<cur>>)
    ELSE IF Head(s) = NL THEN <<cur>> \o SplitLinesAcc(Tail(s), <<>>)
    ELSE SplitLinesAcc(Tail(s), Append(cur, Head(s)))

SplitLines(s) == SplitLinesAcc(s, <<>>)

\* x in list
InSeq(x, list) == \E i \in 1..Len(list) : list[i] = x

NoDuplicates(list) == \A i, j \in 1..Len(list) : i # j => list[i] # list[j]

IsPrefix(s, t) == Len(s) <= Len(t) /\ SubSeq(t, 1, Len(s)) = s

\* Mutant: the slice keeps the whole list.
Take_All(list, n) == list

\* list[:n]
Take(list, n) == SubSeq(list, 1, IF Len(list) < n THEN Len(list) ELSE n)

(* ---------------------------------------------------------------------- *)
(* Guidelines: the ledger and its durable store                            *)
(* ---------------------------------------------------------------------- *)

\* The store before any save: self.path.exists() is false.
NoFile == [exists |-> FALSE, text |-> <<>>]

FileWith(text) == [exists |-> TRUE, text |-> text]

\* Guidelines.save: the header (a title line, a blank line, a sentence, a
\* blank line; "#" and "T" stand for the two fixed sentences), then
\* "- <item>\n" for each item.
Header == <<"#", NL, NL, "T", NL, NL>>

RECURSIVE BulletList(_)
BulletList(its) == IF its = <<>> THEN <<>>
                   ELSE <<DASH, SP>> \o Head(its) \o <<NL>> \o BulletList(Tail(its))

SaveText(its) == Header \o BulletList(its)

\* re.findall(r"^- (.+)$", text, flags=re.MULTILINE): for every line that
\* starts with "- " and has at least one more character, the rest of the line.
BulletOf(l) == SubSeq(l, 3, Len(l))

IsBulletLine(l) == Len(l) >= 3 /\ l[1] = DASH /\ l[2] = SP

RECURSIVE BulletBlocks(_)
BulletBlocks(lines) ==
    IF lines = <<>> THEN <<>>
    ELSE (IF IsBulletLine(Head(lines)) THEN <<BulletOf(Head(lines))>> ELSE <<>>)
         \o BulletBlocks(Tail(lines))

\* [b.strip() for b in blocks if b.strip()]
RECURSIVE StripNonBlank(_)
StripNonBlank(blocks) ==
    IF blocks = <<>> THEN <<>>
    ELSE (IF Strip(Head(blocks)) # <<>> THEN <<Strip(Head(blocks))>> ELSE <<>>)
         \o StripNonBlank(Tail(blocks))

\* Guidelines.load: a missing file leaves items as they are (empty after
\* construction).
LoadItems(file, before) ==
    IF ~file.exists THEN before
    ELSE StripNonBlank(BulletBlocks(SplitLines(file.text)))

\* Guidelines.save: write_text(header + bullet_list) replaces the file.
SaveFile(its) == FileWith(SaveText(its))

\* Guidelines.as_bullets: the fixed baseline (five bullets, "D" stands for
\* their text) when the ledger is empty, else one bullet line per item.
DefaultBullets == <<DASH, SP, "D", NL>>

AsBullets(its) == IF its = <<>> THEN DefaultBullets ELSE BulletList(its)

\* Mutant: the new guides are put in front of the ledger.
Merge_Front(merged, new_guides) ==
    SelectSeq(new_guides, LAMBDA g : ~InSeq(g, merged)) \o merged

\* The merge of loop_over_bug_scenarios: append each new guide not yet present.
RECURSIVE Merge(_, _)
Merge(merged, new_guides) ==
    IF new_guides = <<>> THEN merged
    ELSE Merge(IF InSeq(Head(new_guides), merged) THEN merged
               ELSE Append(merged, Head(new_guides)),
               Tail(new_guides))

(* ---------------------------------------------------------------------- *)
(* PromptRefinerAgent.refine: parsing of the coach's completion            *)
(* ---------------------------------------------------------------------- *)

\* A completion of the coach is either a text json.loads turns into a list
\* (its elements strings or other JSON values), or a text it does not.
JsonStr(s) == [isStr |-> TRUE, s |-> s]
JsonNum == [isStr |-> FALSE, s |-> <<>>]
JsonList(arr) == [isList |-> TRUE, arr |-> arr, text |-> <<>>]
PlainText(t) == [isList |-> FALSE, arr |-> <<>>, text |-> t]

\* refine holds no completion (outside the call, and once it has returned).
NoCompletion == [isList |-> FALSE, arr |-> <<>>, text |-> <<>>, none |-> TRUE]

\* The structured path: skip non-strings, strip, drop blanks and repeats.
RECURSIVE CleanJson(_, _)
CleanJson(arr, cleaned) ==
    IF arr = <<>> THEN cleaned
    ELSE LET it == Head(arr)
             s == Strip(it.s)
         IN CleanJson(Tail(arr),
                      IF it.isStr /\ s # <<>> /\ ~InSeq(s, cleaned)
                      THEN Append(cleaned, s) ELSE cleaned)

\* Mutant: the bullet mark is searched for anywhere in the line.
BulletMatch_Search(line) ==
    \E i \in 1..(Len(line) - 1) : line[i] \in {DASH, STAR} /\ IsWs(line[i + 1])

\* re.match(r'^\s*[-*]\s+(.*)$', line): optional whitespace, one dash or star,
\* at least one whitespace character, then the rest of the line.
BulletMatch(line) ==
    LET l == LStrip(line)
    IN Len(l) >= 2 /\ l[1] \in {DASH, STAR} /\ IsWs(l[2])

BulletGroup(line) == LET l == LStrip(line) IN Strip(SubSeq(l, 3, Len(l)))

\* The fallback path over out.splitlines().
RECURSIVE CleanLines(_, _)
CleanLines(lines, guidelines) ==
    IF lines = <<>> THEN guidelines
    ELSE LET line == Head(lines)
             g == BulletGroup(line)
         IN CleanLines(Tail(lines),
                       IF BulletMatch(line) /\ g # <<>> /\ ~InSeq(g, guidelines)
                       THEN Append(guidelines, g) ELSE guidelines)

\* Both paths cap the result: cleaned[:4], guidelines[:4].
GuideCap == 4

RefineResult(completion) ==
    IF completion.isList
    THEN Take(CleanJson(completion.arr, <<>>), GuideCap)
    ELSE Take(CleanLines(SplitLines(Strip(completion.text)), <<>>), GuideCap)

\* ClaudeClient.complete without the SDK: the fixed placeholder text ("E"
\* stands for its words; it starts with "/*").
Placeholder == <<"/", STAR, SP, "E", SP, STAR, "/">>

\* Completions the coach's model may return.
CoachCompletions ==
    { PlainText(Placeholder),
      JsonList(<<JsonStr(<<"a">>)>>),
      JsonList(<<JsonStr(<<"b">>), JsonStr(<<"a", NL, DASH, SP, "b">>)>>),
      PlainText(<<"x", NL, STAR, SP, SP, "a", SP>>) }

\* Largest number of elements of a JSON list, and of lines of a text, that
\* the coach's completion has where the parse is looked at alone.
MaxParts == 5

\* Elements of a JSON list: five strings, a blank string, a string that is
\* "a" once stripped, a number.
JsonElems ==
    { JsonStr(<<"a">>), JsonStr(<<"b">>), JsonStr(<<"c">>), JsonStr(<<"d">>),
      JsonStr(<<"e">>), JsonStr(<<SP>>), JsonStr(<<SP, "a">>), JsonNum }

\* Lines of a text: bullets with a dash or a star, indented, with several
\* blanks, with nothing after the mark, a repeated one, and a line that is
\* no bullet.
TextLines ==
    { <<DASH, SP, "a">>, <<STAR, SP, "b">>, <<SP, DASH, SP, SP, "c", SP>>,
      <<DASH, SP, "d">>, <<STAR, SP, "e">>, <<DASH, SP>>, <<STAR, SP, SP, "a">>,
      <<DASH, "x">> }

\* "\n".join(lines)
RECURSIVE JoinLines(_)
JoinLines(lines) ==
    IF lines = <<>> THEN <<>>
    ELSE IF Len(lines) = 1 THEN Head(lines)
    ELSE Head(lines) \o <<NL>> \o JoinLines(Tail(lines))

\* Completions handed to the parse of refine when it is looked at alone.
ParseInputs ==
    LET lists == UNION {[1..n -> JsonElems] : n \in 0..MaxParts}
        texts == UNION {[1..n -> TextLines] : n \in 0..MaxParts}
    IN {JsonList(arr) : arr \in lists} \cup {PlainText(JoinLines(ls)) : ls \in texts}

(* ---------------------------------------------------------------------- *)
(* State                                                                   *)
(* ---------------------------------------------------------------------- *)

VARIABLES
    run,              \* ordinal of the process run over the same store
    sdk,              \* ClaudeClient._anthropic is not None
    maxA,             \* cfg.max_fix_attempts_per_bug
    maxR,             \* cfg.max_refine_iterations_per_bug
    requireApproval,  \* cfg.require_approval
    idx,              \* position of the scenario loop (1-based)
    pc,               \* next call of loop_over_bug_scenarios to be made
    head,             \* commit checked out in the repository (0: some other)
    edits,            \* proposals whose edits are present in the working tree
    success, refine_success, attempt, refine_round,
    last_agent_diff,  \* also `proposed` between propose_patch and the test run
    failing_info,     \* test run (its ordinal in the scenario) the evidence is from
    log_buf,          \* entries appended for the current scenario
    logs,             \* per scenario: number of write_log calls of this run
    items,            \* Guidelines.items
    store,            \* the guidelines file
    learned,          \* guidelines the coach returned and this run merged
    out,              \* refine: the completion received and not yet parsed
    proposeCalls,     \* propose_patch calls made for the current scenario
    refineCalls,      \* refine calls made for the current scenario
    testRuns,         \* run_tests calls made for the current scenario
    baseline,         \* result of the scenario's baseline run
    events,           \* what happened in the current scenario (set of tags)
    ex                \* progress of the current scenario along the worked example

cfgVars == <<run, sdk, maxA, maxR, requireApproval>>
treeVars == <<head, edits>>
localVars == <<success, refine_success, attempt, refine_round,
               last_agent_diff, failing_info, log_buf>>
ledgerVars == <<items, store, learned>>
histVars == <<proposeCalls, refineCalls, testRuns, baseline, events, ex>>
vars == <<cfgVars, idx, pc, treeVars, localVars, logs, ledgerVars, histVars, out>>

Scenarios == 1..NumScenarios

\* scenario.parent_commit of the idx-th scenario
ParentCommit(i) == i

\* Proposal texts: the completion, stripped. `shape` is what the two regular
\* expressions of the diff-shape check see, `id` tells the texts apart.
NoDiff == [shape |-> "empty", id |-> 0]
Proposal(shape, id) == [shape |-> shape, id |-> id]

\* What the proposer's model may return: the placeholder or other prose, a
\* patch with a "diff --git" line, a patch with only "--- " headers.
ProposalShapes == {"prose", "gitdiff", "hunks"}

\* The text of a proposal of each shape ("diff" and "git" stand for the
\* words, "a" and "b" for paths); NoDiff is the empty text.
ShapeText(shape) ==
    CASE shape = "prose" -> Placeholder
      [] shape = "gitdiff" -> <<"diff", SP, DASH, DASH, "git", SP, "a", SP, "b", NL,
                                DASH, DASH, DASH, SP, "a">>
      [] shape = "hunks" -> <<"x", NL, SP, DASH, DASH, DASH, SP, "a", NL,
                              "+", "+", "+", SP, "b">>
      [] OTHER -> <<>>

\* \s* from position i: the first position at or after i that holds no
\* whitespace (Len + 1 when there is none).
RECURSIVE SkipWs(_, _)
SkipWs(t, i) == IF i <= Len(t) /\ IsWs(t[i]) THEN SkipWs(t, i + 1) ELSE i

\* ^ under re.MULTILINE: the start of the text and after every line break.
LineStarts(t) == {i \in 1..Len(t) : i = 1 \/ t[i - 1] = NL}

\* ^\s*diff\s+--git\s at line start i
DiffGitAt(t, i) ==
    LET j == SkipWs(t, i)
        k == SkipWs(t, j + 1)
    IN /\ j <= Len(t) /\ t[j] = "diff"
       /\ k > j + 1 /\ k + 3 <= Len(t)
       /\ t[k] = DASH /\ t[k + 1] = DASH /\ t[k + 2] = "git" /\ IsWs(t[k + 3])

\* ^\s*---\s at line start i
HeaderAt(t, i) ==
    LET j == SkipWs(t, i)
    IN /\ j + 3 <= Len(t)
       /\ t[j] = DASH /\ t[j + 1] = DASH /\ t[j + 2] = DASH /\ IsWs(t[j + 3])

\* re.search(r"^\s*diff\s+--git\s", ...) or re.search(r"^\s*---\s", ...)
LooksLikeDiff(p) ==
    LET t == ShapeText(p.shape)
    IN \E i \in LineStarts(t) : DiffGitAt(t, i) \/ HeaderAt(t, i)

\* ClaudeClient.complete for the proposer: without the SDK the placeholder
\* and nothing else, with it whatever the model returns.
ProposerCompletions == IF sdk THEN ProposalShapes ELSE {"prose"}

\* ClaudeClient.complete for the coach (the same client).
CoachReturns == IF sdk THEN CoachCompletions ELSE {PlainText(Placeholder)}

Entry(tag, r, n) == [tag |-> tag, r |-> r, n |-> n]

\* No write_log call yet for a scenario.
NoLog == 0

(* ---------------------------------------------------------------------- *)
(* Prompts of the two agents                                               *)
(* ---------------------------------------------------------------------- *)

\* scenario.fix_commit of the i-th scenario
FixCommit(i) == NumScenarios + i

\* Ground-truth diffs a scenario may carry (git_diff_unified of parent..fix).
HumanDiffs == {<<"h">>, <<"h", "g">>}

\* The i-th BugScenario, its human_diff being h.
BugScenario(i, h) ==
    [parent_commit |-> ParentCommit(i), fix_commit |-> FixCommit(i),
     files_changed |-> <<i>>, human_diff |-> h]

\* load_code_context: the files of files_changed as they are in the tree
\* when it is called, which is right after a checkout of the buggy parent.
LoadCodeContext(scenario) ==
    [files |-> scenario.files_changed, at |-> scenario.parent_commit]

\* Mutant: the proposer renders a ledger of its own that nothing updates.
BuildSystemPrompt_OwnLedger == <<"R", NL>> \o AsBullets(<<>>)

\* BugFixerAgent.build_system_prompt: the fixed rules ("R") and
\* self.guidelines.as_bullets(), self.guidelines being the Orchestrator's
\* Guidelines object.
BuildSystemPrompt == <<"R", NL>> \o AsBullets(items)

\* Mutant: the ground-truth diff is put into the proposer's user prompt.
BuildUserPrompt_Leak(scenario, fi, code_context) ==
    [parent_commit |-> scenario.parent_commit, fix_commit |-> scenario.fix_commit,
     failing_info |-> fi, files_changed |-> scenario.files_changed,
     code_context |-> code_context, human_diff |-> scenario.human_diff]

\* BugFixerAgent.build_user_prompt: the values the text is built from.
BuildUserPrompt(scenario, fi, code_context) ==
    [parent_commit |-> scenario.parent_commit, fix_commit |-> scenario.fix_commit,
     failing_info |-> fi, files_changed |-> scenario.files_changed,
     code_context |-> code_context]

\* BugFixerAgent.propose_patch: what it hands to llm.complete.
ProposePatch(scenario, fi, code_context) ==
    [system_prompt |-> BuildSystemPrompt,
     user_prompt |-> BuildUserPrompt(scenario, fi, code_context)]

\* scenario.human_diff[:6000]
HumanDiffCap == 6000

\* PromptRefinerAgent.refine: the values its user prompt is built from.
RefinePrompt(scenario, agent_diff, fi, current_guidelines) ==
    [failing_info |-> fi, last_agent_diff |-> agent_diff,
     human_diff |-> Take(scenario.human_diff, HumanDiffCap),
     current_guidelines |-> current_guidelines]

(* ---------------------------------------------------------------------- *)
(* Construction                                                            *)
(* ---------------------------------------------------------------------- *)

\* Orchestrator.__init__ of the first run, no guidelines file yet; the
\* budgets and the approval policy are the command line's.
Init ==
    /\ run = 1
    /\ sdk \in BOOLEAN
    /\ maxA \in 0..MaxAttempts
    /\ maxR \in 0..MaxRefines
    /\ requireApproval \in BOOLEAN
    /\ idx = 1
    /\ pc = "checkout"
    /\ head = 0
    /\ edits = {}
    /\ success = FALSE
    /\ refine_success = FALSE
    /\ attempt = 0
    /\ refine_round = 0
    /\ last_agent_diff = NoDiff
    /\ failing_info = 0
    /\ log_buf = <<>>
    /\ logs = [i \in Scenarios |-> NoLog]
    /\ store = NoFile
    /\ items = LoadItems(NoFile, <<>>)
    /\ learned = {}
    /\ out = NoCompletion
    /\ proposeCalls = 0
    /\ refineCalls = 0
    /\ testRuns = 0
    /\ baseline = "none"
    /\ events = {}
    /\ ex = "idle"

(* ---------------------------------------------------------------------- *)
(* The worked example of the specification, as an observer of the steps    *)
(* ---------------------------------------------------------------------- *)

\* max attempts 2, max refinements 1, empty ledger: attempt 1 is not a diff
\* (x1), attempt 2 is a diff (x2) that does not apply (x3); the coach returns
\* one guideline (x4); the baseline fails again (x5); the first post-refinement
\* proposal is a diff (x6), applies (x7) and passes (x8); the scenario ends (x9).
ExStart == IF maxA = 2 /\ maxR = 1 /\ items = <<>> THEN "x0" ELSE "off"

ExStep(e, step) ==
    CASE e = "x0" /\ step = "propose_nondiff" -> "x1"
      [] e = "x1" /\ step = "propose_diff" -> "x2"
      [] e = "x2" /\ step \in {"approve_ok", "clean"} -> "x2"
      [] e = "x2" /\ step = "apply_fail" -> "x3"
      [] e = "x3" /\ step = "refine_one" -> "x4"
      [] e = "x4" /\ step = "checkout_ok" -> "x4"
      [] e = "x4" /\ step = "baseline_fail" -> "x5"
      [] e = "x5" /\ step = "propose_diff" -> "x6"
      [] e = "x6" /\ step \in {"approve_ok", "clean"} -> "x6"
      [] e = "x6" /\ step = "apply_ok" -> "x7"
      [] e = "x7" /\ step = "test_pass" -> "x8"
      [] e = "x8" /\ step = "end" -> "x9"
      [] OTHER -> "off"

(* ---------------------------------------------------------------------- *)
(* Collaborators                                                           *)
(* ---------------------------------------------------------------------- *)

\* Mutant: the reset and clean leave the tree as it is.
EnsureCleanWorktree_Noop(e) == e

\* ensure_clean_worktree: git reset --hard, git clean -fd.
EnsureCleanWorktree(e) == {}

\* Mutant: the answer is asked for and obeyed whatever the policy.
Approval_AskAlways(answer) == answer

\* Orchestrator.approval: without require_approval always True, else the
\* answer typed.
Approval(answer) == IF ~requireApproval THEN TRUE ELSE answer

(* ---------------------------------------------------------------------- *)
(* Control flow of loop_over_bug_scenarios                                 *)
(* ---------------------------------------------------------------------- *)

\* `continue` of the scenario loop, or its end.
ToNextScenario ==
    /\ idx' = idx + 1
    /\ pc' = IF idx >= NumScenarios THEN "done" ELSE "checkout"

\* The refinement loop is entered (line 548): for refine_round in range(1, R+1).
EnterRefineLoop ==
    /\ refine_success' = FALSE
    /\ refine_round' = IF maxR >= 1 THEN 1 ELSE 0
    /\ pc' = IF maxR >= 1 THEN "refine" ELSE "final"

\* for attempt in range(1, A+1) of the initial loop: first iteration.
\* (attempt, refine_round and refine_success still hold what the previous
\* scenario left; none is read before it is assigned again, so they are
\* modelled as unset: 0 and FALSE.)
StartInitialLoop ==
    IF maxA >= 1
    THEN attempt' = 1 /\ pc' = "propose" /\ refine_success' = FALSE /\ refine_round' = 0
    ELSE attempt' = 0 /\ EnterRefineLoop

\* Mutant: the initial loop stops one attempt early.
InitialNextAttempt_OffByOne ==
    IF attempt + 1 < maxA
    THEN attempt' = attempt + 1 /\ pc' = "propose"
         /\ UNCHANGED <<refine_success, refine_round>>
    ELSE attempt' = attempt /\ EnterRefineLoop

\* The initial loop's attempt ended without a break: next iteration, or the
\* loop is over with success = False.
InitialNextAttempt ==
    IF attempt < maxA
    THEN attempt' = attempt + 1 /\ pc' = "propose"
         /\ UNCHANGED <<refine_success, refine_round>>
    ELSE attempt' = attempt /\ EnterRefineLoop

\* Mutant: the refinement loop never counts its rounds.
RefineNextRound_Again ==
    /\ refine_round' = refine_round
    /\ pc' = IF maxR >= 1 THEN "refine" ELSE "final"

\* The refinement round ended without success: next round, or the loop is over.
RefineNextRound ==
    /\ refine_round' = IF refine_round < maxR THEN refine_round + 1 ELSE refine_round
    /\ pc' = IF refine_round < maxR THEN "refine" ELSE "final"

\* for attempt in range(1, A+1) of a post-refinement sub-loop: first iteration.
StartSubLoop ==
    IF maxA >= 1
    THEN attempt' = 1 /\ pc' = "r_propose" /\ UNCHANGED refine_round
    ELSE attempt' = attempt /\ RefineNextRound

\* Mutant: the sub-loop makes one attempt more than the budget.
SubLoopNextAttempt_OneMore ==
    IF attempt <= maxA
    THEN attempt' = attempt + 1 /\ pc' = "r_propose" /\ UNCHANGED refine_round
    ELSE attempt' = attempt /\ RefineNextRound

\* `continue` of the sub-loop, or its end with success = False.
SubLoopNextAttempt ==
    IF attempt < maxA
    THEN attempt' = attempt + 1 /\ pc' = "r_propose" /\ UNCHANGED refine_round
    ELSE attempt' = attempt /\ RefineNextRound

(* ---------------------------------------------------------------------- *)
(* Scenario start: checkout and baseline (lines 481-504)                   *)
(* ---------------------------------------------------------------------- *)

\* git_checkout_detached succeeds: clean tree, HEAD at the buggy parent.
CheckoutOk ==
    /\ pc = "checkout"
    /\ edits' = EnsureCleanWorktree(edits)
    /\ head' = ParentCommit(idx)
    /\ pc' = "baseline"
    /\ proposeCalls' = 0 /\ refineCalls' = 0 /\ testRuns' = 0
    /\ baseline' = "none" /\ events' = {} /\ ex' = "idle"
    /\ UNCHANGED <<cfgVars, out, idx, localVars, logs, ledgerVars>>

\* git_checkout_detached raises: the scenario is skipped.
CheckoutFail ==
    /\ pc = "checkout"
    /\ edits' = EnsureCleanWorktree(edits)
    /\ head' = head
    /\ ToNextScenario
    /\ proposeCalls' = 0 /\ refineCalls' = 0 /\ testRuns' = 0
    /\ baseline' = "none" /\ events' = {"checkout_failed"} /\ ex' = "off"
    /\ UNCHANGED <<cfgVars, out, localVars, logs, ledgerVars>>

\* Mutant: the scenario is not skipped when its baseline run passes.
BaselinePass_NoSkip ==
    /\ pc = "baseline"
    /\ testRuns' = testRuns + 1
    /\ baseline' = "passed"
    /\ failing_info' = testRuns + 1
    /\ log_buf' = <<Entry("HEADER", 0, 0), Entry("BASELINE", 0, 0)>>
    /\ success' = FALSE
    /\ last_agent_diff' = NoDiff
    /\ StartInitialLoop
    /\ ex' = "off"
    /\ UNCHANGED <<cfgVars, out, idx, treeVars, logs, ledgerVars,
                   proposeCalls, refineCalls, events>>

\* The baseline run passes: not a failing baseline, the scenario is skipped.
BaselinePass ==
    /\ pc = "baseline"
    /\ testRuns' = testRuns + 1
    /\ baseline' = "passed"
    /\ ToNextScenario
    /\ ex' = "off"
    /\ UNCHANGED <<cfgVars, out, treeVars, localVars, logs, ledgerVars,
                   proposeCalls, refineCalls, events>>

\* The baseline run fails: evidence, log header, and the initial loop starts.
BaselineFail ==
    /\ pc = "baseline"
    /\ testRuns' = testRuns + 1
    /\ baseline' = "failed"
    /\ failing_info' = testRuns + 1
    /\ log_buf' = <<Entry("HEADER", 0, 0), Entry("BASELINE", 0, 0)>>
    /\ success' = FALSE
    /\ last_agent_diff' = NoDiff
    /\ StartInitialLoop
    /\ ex' = ExStart
    /\ UNCHANGED <<cfgVars, out, idx, treeVars, logs, ledgerVars,
                   proposeCalls, refineCalls, events>>

(* ---------------------------------------------------------------------- *)
(* Initial attempt loop (lines 507-545)                                    *)
(* ---------------------------------------------------------------------- *)

\* llm.complete raises inside propose_patch: nothing in the loop catches it.
ProposeRaise ==
    /\ pc = "propose"
    /\ sdk
    /\ proposeCalls' = proposeCalls + 1
    /\ pc' = "aborted"
    /\ ex' = "off"
    /\ UNCHANGED <<cfgVars, out, idx, treeVars, localVars, logs, ledgerVars,
                   refineCalls, testRuns, baseline, events>>

\* Mutant: a text that is not diff-shaped is not kept as last_agent_diff.
ProposeReturn_DiffOnly ==
    /\ pc = "propose"
    /\ \E shape \in ProposerCompletions :
         LET proposed == Proposal(shape, proposeCalls + 1)
         IN IF LooksLikeDiff(proposed)
            THEN /\ last_agent_diff' = proposed
                 /\ pc' = "approve"
                 /\ ex' = ExStep(ex, "propose_diff")
                 /\ UNCHANGED <<attempt, refine_success, refine_round>>
            ELSE /\ last_agent_diff' = last_agent_diff
                 /\ InitialNextAttempt
                 /\ ex' = ExStep(ex, "propose_nondiff")
    /\ proposeCalls' = proposeCalls + 1
    /\ UNCHANGED <<cfgVars, out, idx, treeVars, success, failing_info, log_buf, logs,
                   ledgerVars, refineCalls, testRuns, baseline, events>>

\* propose_patch returns a text; the diff-shape check.
ProposeReturn ==
    /\ pc = "propose"
    /\ \E shape \in ProposerCompletions :
         LET proposed == Proposal(shape, proposeCalls + 1)
         IN /\ last_agent_diff' = proposed
            /\ IF LooksLikeDiff(proposed)
               THEN /\ pc' = "approve"
                    /\ ex' = ExStep(ex, "propose_diff")
                    /\ UNCHANGED <<attempt, refine_success, refine_round>>
               ELSE /\ InitialNextAttempt
                    /\ ex' = ExStep(ex, "propose_nondiff")
    /\ proposeCalls' = proposeCalls + 1
    /\ UNCHANGED <<cfgVars, out, idx, treeVars, success, failing_info, log_buf, logs,
                   ledgerVars, refineCalls, testRuns, baseline, events>>

\* self.approval(scenario, proposed)
Approve ==
    /\ pc = "approve"
    /\ \E answer \in BOOLEAN :
         IF Approval(answer)
         THEN /\ pc' = "clean"
              /\ ex' = ExStep(ex, "approve_ok")
              /\ UNCHANGED <<attempt, refine_success, refine_round>>
         ELSE /\ InitialNextAttempt
              /\ ex' = ExStep(ex, "declined")
    /\ UNCHANGED <<cfgVars, out, idx, treeVars, success, last_agent_diff, failing_info,
                   log_buf, logs, ledgerVars, proposeCalls, refineCalls, testRuns,
                   baseline, events>>

\* ensure_clean_worktree before the apply (line 524)
Clean ==
    /\ pc = "clean"
    /\ edits' = EnsureCleanWorktree(edits)
    /\ pc' = "apply"
    /\ ex' = ExStep(ex, "clean")
    /\ UNCHANGED <<cfgVars, out, idx, head, localVars, logs, ledgerVars,
                   proposeCalls, refineCalls, testRuns, baseline, events>>

\* apply_unified_diff_with_git returns True: the patch is in the tree.
ApplyOk ==
    /\ pc = "apply"
    /\ edits' = edits \cup {last_agent_diff.id}
    /\ pc' = "test"
    /\ ex' = ExStep(ex, "apply_ok")
    /\ UNCHANGED <<cfgVars, out, idx, head, localVars, logs, ledgerVars,
                   proposeCalls, refineCalls, testRuns, baseline, events>>

\* apply_unified_diff_with_git returns False; git apply --reject may have
\* left the hunks that did apply.
ApplyFail ==
    /\ pc = "apply"
    /\ \E partial \in BOOLEAN :
         edits' = IF partial THEN edits \cup {last_agent_diff.id} ELSE edits
    /\ InitialNextAttempt
    /\ ex' = ExStep(ex, "apply_fail")
    /\ UNCHANGED <<cfgVars, out, idx, head, success, last_agent_diff, failing_info,
                   log_buf, logs, ledgerVars, proposeCalls, refineCalls, testRuns,
                   baseline, events>>

\* The post-apply run passes: SUCCESS marker, break.
TestPass ==
    /\ pc = "test"
    /\ testRuns' = testRuns + 1
    /\ success' = TRUE
    /\ log_buf' = log_buf \o <<Entry("ATTEMPT_PATCH", 0, attempt),
                               Entry("ATTEMPT_OUT", 0, attempt),
                               Entry("SUCCESS", 0, attempt)>>
    /\ pc' = "write_log"
    /\ events' = events \cup {"pass_initial"}
    /\ ex' = ExStep(ex, "test_pass")
    /\ UNCHANGED <<cfgVars, out, idx, treeVars, refine_success, attempt, refine_round,
                   last_agent_diff, failing_info, logs, ledgerVars,
                   proposeCalls, refineCalls, baseline>>

\* The post-apply run fails: the evidence is refreshed.
TestFail ==
    /\ pc = "test"
    /\ testRuns' = testRuns + 1
    /\ log_buf' = log_buf \o <<Entry("ATTEMPT_PATCH", 0, attempt),
                               Entry("ATTEMPT_OUT", 0, attempt)>>
    /\ failing_info' = testRuns + 1
    /\ InitialNextAttempt
    /\ ex' = ExStep(ex, "test_fail")
    /\ UNCHANGED <<cfgVars, out, idx, treeVars, success, last_agent_diff, logs,
                   ledgerVars, proposeCalls, refineCalls, baseline, events>>

\* Mutant: the log is written after the initial loop's success, and the
\* scenario goes on to the end of the loop body instead of `continue`.
WriteLogSuccess_NoContinue ==
    /\ pc = "write_log"
    /\ logs' = [logs EXCEPT ![idx] = @ + 1]
    /\ pc' = "final"
    /\ ex' = ex
    /\ UNCHANGED <<cfgVars, out, idx, treeVars, localVars, ledgerVars, proposeCalls,
                   refineCalls, testRuns, baseline, events>>

\* if success: write_log; continue (lines 543-545)
WriteLogSuccess ==
    /\ pc = "write_log"
    /\ logs' = [logs EXCEPT ![idx] = @ + 1]
    /\ ToNextScenario
    /\ ex' = ExStep(ex, "end")
    /\ UNCHANGED <<cfgVars, out, treeVars, localVars, ledgerVars, proposeCalls,
                   refineCalls, testRuns, baseline, events>>

(* ---------------------------------------------------------------------- *)
(* Refinement loop (lines 548-613)                                         *)
(* ---------------------------------------------------------------------- *)

\* llm.complete raises inside refine: nothing in the loop catches it.
RefineRaise ==
    /\ pc = "refine"
    /\ sdk
    /\ refineCalls' = refineCalls + 1
    /\ pc' = "aborted"
    /\ ex' = "off"
    /\ UNCHANGED <<cfgVars, out, idx, treeVars, localVars, logs, ledgerVars,
                   proposeCalls, testRuns, baseline, events>>

\* Mutant: the coach's guidelines are not merged into the ledger.
MergedItems_Keep(new_guides) == items

\* The ledger after the round's coach result: unchanged when it is empty,
\* else merged (lines 557-561).
MergedItems(new_guides) ==
    IF new_guides = <<>> THEN items ELSE Merge(items, new_guides)

\* Mutant: the ledger is saved after every coach result, an empty one too.
StoreAfter_AlwaysSave(new_guides) == SaveFile(MergedItems(new_guides))

\* Mutant: the merged ledger is not saved.
StoreAfter_NoSave(new_guides) == store

\* The store after the round's coach result: saved only after a merge.
StoreAfter(new_guides) ==
    IF new_guides = <<>> THEN store ELSE SaveFile(MergedItems(new_guides))

\* refine returns; merge and save, or "No usable guidelines" (lines 551-564).
RefineReturn ==
    /\ pc = "refine"
    /\ \E completion \in CoachReturns :
         LET new_guides == RefineResult(completion)
         IN /\ items' = MergedItems(new_guides)
            /\ store' = StoreAfter(new_guides)
            /\ learned' = learned \cup {new_guides[i] : i \in 1..Len(new_guides)}
            /\ log_buf' = Append(log_buf,
                                 IF new_guides = <<>>
                                 THEN Entry("REFINE_NONE", refine_round, 0)
                                 ELSE Entry("REFINE_GUIDES", refine_round, Len(new_guides)))
            /\ ex' = ExStep(ex, IF Len(new_guides) = 1 THEN "refine_one" ELSE "refine_other")
    /\ refineCalls' = refineCalls + 1
    /\ pc' = "re_checkout"
    /\ UNCHANGED <<cfgVars, out, idx, treeVars, success, refine_success, attempt,
                   refine_round, last_agent_diff, failing_info, logs,
                   proposeCalls, testRuns, baseline, events>>

\* The re-checkout of the buggy parent succeeds.
ReCheckoutOk ==
    /\ pc = "re_checkout"
    /\ edits' = EnsureCleanWorktree(edits)
    /\ head' = ParentCommit(idx)
    /\ pc' = "re_baseline"
    /\ ex' = ExStep(ex, "checkout_ok")
    /\ UNCHANGED <<cfgVars, out, idx, localVars, logs, ledgerVars, proposeCalls,
                   refineCalls, testRuns, baseline, events>>

\* Mutant: the failed re-checkout is ignored and the round goes on.
ReCheckoutFail_Ignored ==
    /\ pc = "re_checkout"
    /\ edits' = EnsureCleanWorktree(edits)
    /\ head' = head
    /\ pc' = "re_baseline"
    /\ events' = events \cup {"re_checkout_failed"}
    /\ ex' = "off"
    /\ UNCHANGED <<cfgVars, out, idx, localVars, logs, ledgerVars, proposeCalls,
                   refineCalls, testRuns, baseline>>

\* The re-checkout raises: break out of the refinement loop.
ReCheckoutFail ==
    /\ pc = "re_checkout"
    /\ edits' = EnsureCleanWorktree(edits)
    /\ head' = head
    /\ pc' = "final"
    /\ events' = events \cup {"re_checkout_failed"}
    /\ ex' = "off"
    /\ UNCHANGED <<cfgVars, out, idx, localVars, logs, ledgerVars, proposeCalls,
                   refineCalls, testRuns, baseline>>

\* Mutant: the anomalous baseline is logged and the round goes on to its
\* attempts instead of breaking.
ReBaselinePass_Continue ==
    /\ pc = "re_baseline"
    /\ testRuns' = testRuns + 1
    /\ log_buf' = Append(log_buf, Entry("ANOMALY", refine_round, 0))
    /\ StartSubLoop
    /\ events' = events \cup {"anomaly"}
    /\ ex' = "off"
    /\ UNCHANGED <<cfgVars, out, idx, treeVars, success, refine_success,
                   last_agent_diff, failing_info, logs, ledgerVars,
                   proposeCalls, refineCalls, baseline>>

\* The re-run baseline passes: logged as anomalous, break.
ReBaselinePass ==
    /\ pc = "re_baseline"
    /\ testRuns' = testRuns + 1
    /\ log_buf' = Append(log_buf, Entry("ANOMALY", refine_round, 0))
    /\ pc' = "final"
    /\ events' = events \cup {"anomaly"}
    /\ ex' = "off"
    /\ UNCHANGED <<cfgVars, out, idx, treeVars, success, refine_success, attempt,
                   refine_round, last_agent_diff, failing_info, logs, ledgerVars,
                   proposeCalls, refineCalls, baseline>>

\* The re-run baseline fails: fresh evidence, a fresh sub-loop (lines 579-584).
ReBaselineFail ==
    /\ pc = "re_baseline"
    /\ testRuns' = testRuns + 1
    /\ failing_info' = testRuns + 1
    /\ last_agent_diff' = NoDiff
    /\ success' = FALSE
    /\ StartSubLoop
    /\ ex' = ExStep(ex, "baseline_fail")
    /\ UNCHANGED <<cfgVars, out, idx, treeVars, refine_success, log_buf, logs,
                   ledgerVars, proposeCalls, refineCalls, baseline, events>>

\* llm.complete raises inside a post-refinement propose_patch.
RProposeRaise ==
    /\ pc = "r_propose"
    /\ sdk
    /\ proposeCalls' = proposeCalls + 1
    /\ pc' = "aborted"
    /\ ex' = "off"
    /\ UNCHANGED <<cfgVars, out, idx, treeVars, localVars, logs, ledgerVars,
                   refineCalls, testRuns, baseline, events>>

\* propose_patch returns in a sub-loop; the diff-shape check (lines 586-593).
RProposeReturn ==
    /\ pc = "r_propose"
    /\ \E shape \in ProposerCompletions :
         LET proposed == Proposal(shape, proposeCalls + 1)
         IN /\ last_agent_diff' = proposed
            /\ IF LooksLikeDiff(proposed)
               THEN /\ pc' = "r_approve"
                    /\ ex' = ExStep(ex, "propose_diff")
                    /\ UNCHANGED <<attempt, refine_round>>
               ELSE /\ SubLoopNextAttempt
                    /\ ex' = ExStep(ex, "propose_nondiff")
    /\ proposeCalls' = proposeCalls + 1
    /\ UNCHANGED <<cfgVars, out, idx, treeVars, success, refine_success, failing_info,
                   log_buf, logs, ledgerVars, refineCalls, testRuns, baseline,
                   events>>

\* self.approval in a sub-loop (lines 594-596)
RApprove ==
    /\ pc = "r_approve"
    /\ \E answer \in BOOLEAN :
         IF Approval(answer)
         THEN /\ pc' = "r_clean"
              /\ ex' = ExStep(ex, "approve_ok")
              /\ UNCHANGED <<attempt, refine_round>>
         ELSE /\ SubLoopNextAttempt
              /\ ex' = ExStep(ex, "declined")
    /\ UNCHANGED <<cfgVars, out, idx, treeVars, success, refine_success,
                   last_agent_diff, failing_info, log_buf, logs, ledgerVars,
                   proposeCalls, refineCalls, testRuns, baseline, events>>

\* ensure_clean_worktree before the apply (line 597)
RClean ==
    /\ pc = "r_clean"
    /\ edits' = EnsureCleanWorktree(edits)
    /\ pc' = "r_apply"
    /\ ex' = ExStep(ex, "clean")
    /\ UNCHANGED <<cfgVars, out, idx, head, localVars, logs, ledgerVars,
                   proposeCalls, refineCalls, testRuns, baseline, events>>

\* apply_unified_diff_with_git returns True in a sub-loop.
RApplyOk ==
    /\ pc = "r_apply"
    /\ edits' = edits \cup {last_agent_diff.id}
    /\ pc' = "r_test"
    /\ ex' = ExStep(ex, "apply_ok")
    /\ UNCHANGED <<cfgVars, out, idx, head, localVars, logs, ledgerVars,
                   proposeCalls, refineCalls, testRuns, baseline, events>>

\* apply_unified_diff_with_git returns False in a sub-loop: continue.
RApplyFail ==
    /\ pc = "r_apply"
    /\ \E partial \in BOOLEAN :
         edits' = IF partial THEN edits \cup {last_agent_diff.id} ELSE edits
    /\ SubLoopNextAttempt
    /\ ex' = ExStep(ex, "apply_fail")
    /\ UNCHANGED <<cfgVars, out, idx, head, success, refine_success, last_agent_diff,
                   failing_info, log_buf, logs, ledgerVars, proposeCalls,
                   refineCalls, testRuns, baseline, events>>

\* The post-apply run passes in a sub-loop: marker, both breaks (lines 606-613).
RTestPass ==
    /\ pc = "r_test"
    /\ testRuns' = testRuns + 1
    /\ success' = TRUE
    /\ refine_success' = TRUE
    /\ log_buf' = log_buf \o <<Entry("POST_PATCH", refine_round, attempt),
                               Entry("POST_OUT", refine_round, attempt),
                               Entry("SUCCESS_REFINED", refine_round, attempt)>>
    /\ pc' = "final"
    /\ events' = events \cup {"pass_refine"}
    /\ ex' = ExStep(ex, "test_pass")
    /\ UNCHANGED <<cfgVars, out, idx, treeVars, attempt, refine_round, last_agent_diff,
                   failing_info, logs, ledgerVars, proposeCalls, refineCalls,
                   baseline>>

\* The post-apply run fails in a sub-loop: logged; failing_info is left as it
\* is (the sub-loop has no else branch).
RTestFail ==
    /\ pc = "r_test"
    /\ testRuns' = testRuns + 1
    /\ log_buf' = log_buf \o <<Entry("POST_PATCH", refine_round, attempt),
                               Entry("POST_OUT", refine_round, attempt)>>
    /\ SubLoopNextAttempt
    /\ ex' = ExStep(ex, "test_fail")
    /\ UNCHANGED <<cfgVars, out, idx, treeVars, success, refine_success,
                   last_agent_diff, failing_info, logs, ledgerVars, proposeCalls,
                   refineCalls, baseline, events>>

\* Mutant: the FAILED marker is appended whatever the outcome.
FinalLog_Always(buf, succ, rsucc) == Append(buf, Entry("FAILED", 0, 0))

\* The FAILED marker unless success or refine_success (lines 615-616).
FinalLog(buf, succ, rsucc) ==
    IF ~(succ \/ rsucc) THEN Append(buf, Entry("FAILED", 0, 0)) ELSE buf

\* After the refinement loop: the marker, write_log, next scenario (615-618).
Final ==
    /\ pc = "final"
    /\ log_buf' = FinalLog(log_buf, success, refine_success)
    /\ logs' = [logs EXCEPT ![idx] = @ + 1]
    /\ ToNextScenario
    /\ ex' = ExStep(ex, "end")
    /\ UNCHANGED <<cfgVars, out, treeVars, success, refine_success, attempt,
                   refine_round, last_agent_diff, failing_info, ledgerVars,
                   proposeCalls, refineCalls, testRuns, baseline, events>>

(* ---------------------------------------------------------------------- *)
(* A later run of the program over the same guideline store                *)
(* ---------------------------------------------------------------------- *)

\* main() again after the loop returned or the process died: a new
\* ClaudeClient (the SDK may have been installed or removed), a new
\* Orchestrator, Guidelines.load from the file the earlier run left.
Restart ==
    /\ pc \in {"done", "aborted"}
    /\ run < MaxRuns
    /\ run' = run + 1
    /\ sdk' \in BOOLEAN
    /\ items' = LoadItems(store, <<>>)
    /\ learned' = {}
    /\ idx' = 1
    /\ pc' = "checkout"
    /\ success' = FALSE /\ refine_success' = FALSE
    /\ attempt' = 0 /\ refine_round' = 0
    /\ last_agent_diff' = NoDiff /\ failing_info' = 0 /\ log_buf' = <<>>
    /\ logs' = [i \in Scenarios |-> NoLog]
    /\ proposeCalls' = 0 /\ refineCalls' = 0 /\ testRuns' = 0
    /\ baseline' = "none" /\ events' = {} /\ ex' = "idle"
    /\ UNCHANGED <<maxA, maxR, requireApproval, treeVars, store, out>>

Next ==
    \/ CheckoutOk \/ CheckoutFail \/ BaselinePass \/ BaselineFail
    \/ ProposeRaise \/ ProposeReturn \/ Approve \/ Clean
    \/ ApplyOk \/ ApplyFail \/ TestPass \/ TestFail \/ WriteLogSuccess
    \/ RefineRaise \/ RefineReturn \/ ReCheckoutOk \/ ReCheckoutFail
    \/ ReBaselinePass \/ ReBaselineFail
    \/ RProposeRaise \/ RProposeReturn \/ RApprove \/ RClean
    \/ RApplyOk \/ RApplyFail \/ RTestPass \/ RTestFail
    \/ Final \/ Restart

Spec == Init /\ [][Next]_vars

(* ---------------------------------------------------------------------- *)
(* The parse of refine looked at alone                                     *)
(* ---------------------------------------------------------------------- *)

\* Round 1 of the first scenario, max attempts 1: the baseline failed, the
\* one proposal of the initial loop was not diff-shaped, and llm.complete has
\* just returned inside refine. The ledger is empty, or holds "a" loaded
\* from the file an earlier run left.
InitParse ==
    /\ run = 1 /\ sdk = TRUE
    /\ maxA = 1 /\ maxR = 1 /\ requireApproval = FALSE
    /\ idx = 1 /\ pc = "refine"
    /\ head = ParentCommit(1) /\ edits = {}
    /\ success = FALSE /\ refine_success = FALSE
    /\ attempt = 1 /\ refine_round = 1
    /\ last_agent_diff = Proposal("prose", 1)
    /\ failing_info = 1
    /\ log_buf = <<Entry("HEADER", 0, 0), Entry("BASELINE", 0, 0)>>
    /\ logs = [i \in Scenarios |-> NoLog]
    /\ items \in {<<>>, << <<"a">> >>}
    /\ store = IF items = <<>> THEN NoFile ELSE SaveFile(items)
    /\ learned = {}
    /\ out \in ParseInputs
    /\ proposeCalls = 1 /\ refineCalls = 0 /\ testRuns = 1
    /\ baseline = "failed" /\ events = {} /\ ex = "off"

\* refine parses the completion and returns; merge and save, or "No usable
\* guidelines" (lines 401-422, 552-564).
RefineParse ==
    /\ pc = "refine"
    /\ out # NoCompletion
    /\ LET new_guides == RefineResult(out)
       IN /\ items' = MergedItems(new_guides)
          /\ store' = StoreAfter(new_guides)
          /\ learned' = learned \cup {new_guides[i] : i \in 1..Len(new_guides)}
          /\ log_buf' = Append(log_buf,
                               IF new_guides = <<>>
                               THEN Entry("REFINE_NONE", refine_round, 0)
                               ELSE Entry("REFINE_GUIDES", refine_round, Len(new_guides)))
          /\ ex' = ExStep(ex, IF Len(new_guides) = 1 THEN "refine_one" ELSE "refine_other")
    /\ out' = NoCompletion
    /\ refineCalls' = refineCalls + 1
    /\ pc' = "re_checkout"
    /\ UNCHANGED <<cfgVars, idx, treeVars, success, refine_success, attempt,
                   refine_round, last_agent_diff, failing_info, logs,
                   proposeCalls, testRuns, baseline, events>>

\* The parse, then the round as far as its first post-refinement proposal.
NextParse == RefineParse \/ ReCheckoutOk \/ ReBaselineFail

SpecParse == InitParse /\ [][NextParse]_vars

\* The steps of loop_over_bug_scenarios in which the collaborator called
\* returns (a checkout that fails raises inside a try and counts as one).
Returns ==
    \/ CheckoutOk \/ CheckoutFail \/ BaselinePass \/ BaselineFail
    \/ ProposeReturn \/ Approve \/ Clean
    \/ ApplyOk \/ ApplyFail \/ TestPass \/ TestFail \/ WriteLogSuccess
    \/ RefineReturn \/ ReCheckoutOk \/ ReCheckoutFail
    \/ ReBaselinePass \/ ReBaselineFail
    \/ RProposeReturn \/ RApprove \/ RClean
    \/ RApplyOk \/ RApplyFail \/ RTestPass \/ RTestFail
    \/ Final

\* One run of the program when every collaborator call returns: the
\* interpreter goes on to the next statement of the loop as long as there
\* is one.
SpecReturning == Init /\ [][Returns]_vars /\ WF_vars(Returns)

(* ---------------------------------------------------------------------- *)
(* Observations used by the properties                                     *)
(* ---------------------------------------------------------------------- *)

HasTag(buf, tag) == \E i \in 1..Len(buf) : buf[i].tag = tag

CountTags(buf, tags) == Cardinality({i \in 1..Len(buf) : buf[i].tag \in tags})

OutcomeTags == {"SUCCESS", "SUCCESS_REFINED", "FAILED"}

\* The scenario before idx entered the attempt loop and has ended; its
\* counters, events and log buffer are still those it ended with.
EndedAfterLoop == pc \in {"checkout", "done"} /\ baseline = "failed"

\* The attempt of an initial loop or of a sub-loop is under way.
InAttemptCalls == pc \in {"propose", "approve", "clean", "apply", "test",
                          "r_propose", "r_approve", "r_clean", "r_apply", "r_test"}

(* ---------------------------------------------------------------------- *)
(* C1..C10                                                                 *)
(* ---------------------------------------------------------------------- *)

\* C1: no propose_patch or refine call is made for a scenario before its
\* baseline run has been made and has failed; a scenario whose baseline run
\* passes has ended, with no propose_patch and no refine call.
C1_BaselineBeforeProposals ==
    /\ (proposeCalls > 0 \/ refineCalls > 0 \/ InAttemptCalls \/ pc = "refine")
          => (baseline = "failed" /\ testRuns >= 1)
    /\ baseline = "passed"
          => (pc \in {"checkout", "done"} /\ proposeCalls = 0 /\ refineCalls = 0)

C1_Witness == baseline = "passed" /\ pc = "checkout" /\ idx = 2

\* C2: whenever git apply is about to run, in the initial loop or in a
\* sub-loop, HEAD is the scenario's buggy parent and the tree holds no edit;
\* whenever a post-apply test run is about to run, the tree holds the edits
\* of the proposal just applied and no other.
C2_CleanTreeBeforeApply ==
    /\ pc \in {"apply", "r_apply"} => (edits = {} /\ head = ParentCommit(idx))
    /\ pc \in {"test", "r_test"}
          => (edits = {last_agent_diff.id} /\ head = ParentCommit(idx))

\* Attempt 2 of the initial loop is about to apply after attempt 1 was
\* applied and tested (two test runs so far: baseline and attempt 1).
C2_Witness == pc = "apply" /\ attempt = 2 /\ testRuns = 2

\* C3: a scenario that exhausted every budget (failing baseline, no passing
\* run, no failed re-checkout, no anomalous baseline) made exactly
\* maxA * (1 + maxR) propose_patch calls.
C3_ExhaustedProposals ==
    (baseline = "failed" /\ events = {} /\ pc \in {"final", "checkout", "done"})
       => proposeCalls = maxA * (1 + maxR)

C3_Witness ==
    /\ pc = "checkout" /\ baseline = "failed" /\ events = {}
    /\ maxA = 2 /\ maxR = 2 /\ proposeCalls = 6

\* C4: once a re-run baseline has passed in a refinement round, the scenario
\* holds no SUCCESS marker, success stays false, and no step makes a further
\* propose_patch or refine call for it.
C4_AnomalyState ==
    "anomaly" \in events
       => /\ pc \in {"final", "checkout", "done"}
          /\ ~success /\ ~refine_success
          /\ ~HasTag(log_buf, "SUCCESS") /\ ~HasTag(log_buf, "SUCCESS_REFINED")
          /\ HasTag(log_buf, "ANOMALY")

C4_AnomalyStep ==
    ("anomaly" \in events /\ "anomaly" \in events')
       => (proposeCalls' = proposeCalls /\ refineCalls' = refineCalls)

C5_NoDuplicateGuidelines == NoDuplicates(items)

\* C6: loading what save writes for the current ledger gives the ledger back.
C6_SaveLoadRoundTrip == LoadItems(SaveFile(items), <<>>) = items

\* C7: a failed checkout ends the scenario and only the scenario: no
\* propose_patch or refine call follows, no SUCCESS marker is logged, and the
\* loop goes on to the next scenario (or ends after the last one).
C7_CheckoutFailState ==
    /\ "checkout_failed" \in events
          => (pc \in {"checkout", "done"} /\ proposeCalls = 0 /\ refineCalls = 0
              /\ testRuns = 0)
    /\ "re_checkout_failed" \in events
          => /\ pc \in {"final", "checkout", "done"}
             /\ ~HasTag(log_buf, "SUCCESS") /\ ~HasTag(log_buf, "SUCCESS_REFINED")

C7_CheckoutFailStep ==
    /\ (pc = "checkout" /\ "checkout_failed" \in events')
          => (idx' = idx + 1 /\ pc' = IF idx < NumScenarios THEN "checkout" ELSE "done")
    /\ ("re_checkout_failed" \in events /\ "re_checkout_failed" \in events')
          => /\ proposeCalls' = proposeCalls /\ refineCalls' = refineCalls
             /\ idx' = idx + 1
             /\ pc' = IF idx < NumScenarios THEN "checkout" ELSE "done"

C7_CheckoutFailureSkipsScenarioOnly ==
    [](C7_CheckoutFailState) /\ [][C7_CheckoutFailStep]_vars

\* The re-checkout of scenario 1 failed and the loop is at scenario 2.
C7_Witness == "re_checkout_failed" \in events /\ pc = "checkout" /\ idx = 2

\* C8: along the worked example: after the two initial attempts, 2 proposals
\* and only the baseline test run; after the coach, one refine call and one
\* ledger entry more than the empty ledger; at the end the post-refinement
\* SUCCESS marker, no FAILED marker, 3 proposals, the log written.
C8_WorkedExample ==
    /\ ex = "x3" => (proposeCalls = 2 /\ testRuns = 1 /\ refineCalls = 0
                     /\ pc = "refine" /\ ~success)
    /\ ex \in {"x4", "x5", "x6", "x7", "x8", "x9"}
          => (refineCalls = 1 /\ Len(items) = 1 /\ store = SaveFile(items))
    /\ ex \in {"x8", "x9"}
          => /\ proposeCalls = 3
             /\ HasTag(log_buf, "SUCCESS_REFINED")
             /\ ~HasTag(log_buf, "SUCCESS")
    /\ ex = "x9"
          => /\ ~HasTag(log_buf, "FAILED")
             /\ pc \in {"checkout", "done"}
             /\ logs[idx - 1] = 1

C8_Witness == ex = "x9"

\* C9: a scenario that entered the attempt loop and ended has its log
\* written with exactly one outcome marker: SUCCESS iff a post-apply run
\* passed in the initial loop, the post-refinement SUCCESS iff one passed in
\* a refinement round, FAILED iff none passed.
C9_ExactlyOneOutcome ==
    EndedAfterLoop
       => /\ logs[idx - 1] = 1
          /\ CountTags(log_buf, OutcomeTags) = 1
          /\ HasTag(log_buf, "SUCCESS") <=> "pass_initial" \in events
          /\ HasTag(log_buf, "SUCCESS_REFINED") <=> "pass_refine" \in events
          /\ HasTag(log_buf, "FAILED")
                <=> ("pass_initial" \notin events /\ "pass_refine" \notin events)

C9_Witness == EndedAfterLoop /\ "pass_refine" \in events /\ refine_round = 2

\* C10: no error of a collaborator aborts the run.
C10_NoCollaboratorErrorAborts == pc # "aborted"

(* ---------------------------------------------------------------------- *)
(* C11..C20                                                                *)
(* ---------------------------------------------------------------------- *)

\* C11: without the SDK (every completion is the placeholder) no proposal
\* passes the diff-shape check, so no approval, clean, apply or post-apply
\* test is ever reached; no coach result is usable, so no step of the run
\* changes the ledger or its store; a scenario with a failing baseline ends
\* with the FAILED marker and its log written; the run never aborts.
C11_PlaceholderState ==
    ~sdk
       => /\ pc \notin {"approve", "clean", "apply", "test", "write_log",
                        "r_approve", "r_clean", "r_apply", "r_test", "aborted"}
          /\ ~LooksLikeDiff(last_agent_diff)
          /\ ~HasTag(log_buf, "REFINE_GUIDES")
          /\ EndedAfterLoop
                => /\ HasTag(log_buf, "FAILED")
                   /\ ~HasTag(log_buf, "SUCCESS") /\ ~HasTag(log_buf, "SUCCESS_REFINED")
                   /\ logs[idx - 1] = 1

C11_PlaceholderStep ==
    (~sdk /\ run' = run) => (items' = items /\ store' = store /\ edits' = {})

C11_PlaceholderSoftPathOnly ==
    [](C11_PlaceholderState) /\ [][C11_PlaceholderStep]_vars

\* A run without the SDK over a ledger an earlier run filled went through
\* both scenarios; the last one used every attempt and every round.
C11_Witness ==
    /\ ~sdk /\ pc = "done" /\ EndedAfterLoop /\ items # <<>>
    /\ proposeCalls = 6 /\ refineCalls = 2 /\ HasTag(log_buf, "FAILED")

\* C12: within a run no step removes, rewrites or reorders a guideline: the
\* ledger before a step is a prefix of the ledger after it, and what a step
\* adds is the coach's result without the guides already present, in the
\* coach's order, at the end.
C12_NewGuides(new_guides, its) == SelectSeq(new_guides, LAMBDA g : ~InSeq(g, its))

C12_AppendStep ==
    run' = run
       => /\ IsPrefix(items, items')
          /\ items' # items
                => \E c \in CoachCompletions :
                      items' = items \o C12_NewGuides(RefineResult(c), items)

C12_LedgerAppendOnly == [][C12_AppendStep]_vars

\* The ledger grew twice in the first run: by one guide, then by two.
C12_Witness ==
    run = 1 /\ items = << <<"a">>, <<"b">>, <<"a", NL, DASH, SP, "b">> >>

\* C13: the merge is followed by save with no collaborator call in between:
\* a step that changes the ledger within a run leaves the store holding what
\* save writes for the new ledger; and in every state (so at every scenario
\* boundary and at every propose_patch and refine call) the store is what
\* save writes for the current ledger, or the ledger is still what startup
\* loaded from the store.
C13_SavedState ==
    store = SaveFile(items) \/ items = LoadItems(store, <<>>)

C13_SavedStep ==
    (run' = run /\ items' # items) => store' = SaveFile(items')

C13_SaveAfterEveryChange == [](C13_SavedState) /\ [][C13_SavedStep]_vars

\* A post-refinement propose_patch call is about to be made after two rounds
\* of the scenario changed the ledger.
C13_Witness ==
    /\ pc = "r_propose" /\ refine_round = 2 /\ Len(items) = 3
    /\ store = SaveFile(items) /\ refineCalls = 2

\* C14: the proposer's input does not depend on the ground-truth diff:
\* wherever a propose_patch or refine call is about to be made, had the
\* scenario carried another human_diff and nothing else differed,
\* propose_patch would hand the same system and user prompt to the
\* completion service, while the coach's prompt would differ.
C14_ProposerNeverSeesHumanDiff ==
    pc \in {"propose", "r_propose", "refine"}
       => \A h1, h2 \in HumanDiffs :
             LET s1 == BugScenario(idx, h1)
                 s2 == BugScenario(idx, h2)
             IN /\ ProposePatch(s1, failing_info, LoadCodeContext(s1))
                     = ProposePatch(s2, failing_info, LoadCodeContext(s2))
                /\ h1 # h2
                      => RefinePrompt(s1, last_agent_diff, failing_info, AsBullets(items))
                            # RefinePrompt(s2, last_agent_diff, failing_info, AsBullets(items))

\* A propose_patch call is about to be made after the coach has been given
\* the scenario's human_diff and has returned guidelines from it.
C14_Witness ==
    pc = "r_propose" /\ refineCalls >= 1 /\ HasTag(log_buf, "REFINE_GUIDES")

\* C16: every scenario the loop has gone past, whatever its outcome, has had
\* its log written by one write_log call.
C16_EveryScenarioLogged ==
    \A i \in Scenarios : i < idx => logs[i] = 1

\* C17: every attempt made for a scenario, soft failures included, has its
\* entry in the log buffer: when the scenario has ended, the buffer holds as
\* many attempt entries as propose_patch calls were made.
C17_EveryAttemptLogged ==
    EndedAfterLoop
       => CountTags(log_buf, {"ATTEMPT_PATCH", "POST_PATCH"}) = proposeCalls

\* C18: whenever propose_patch or refine is about to be called, failing_info
\* is the evidence parsed from the scenario's most recent test run.
C18_EvidenceFromLatestRun ==
    pc \in {"propose", "r_propose", "refine"} => failing_info = testRuns

\* C19: whenever refine is about to be called, an attempt loop has just been
\* exhausted without success (every attempt of the initial loop and of each
\* earlier round was made, none passed), and with max attempts >= 1
\* last_agent_diff is the text of the scenario's most recent propose_patch
\* call, diff-shaped or not.
C19_CoachGetsLastProposal ==
    pc = "refine"
       => /\ ~success /\ ~refine_success
          /\ attempt = maxA
          /\ refineCalls = refine_round - 1
          /\ proposeCalls = refine_round * maxA
          /\ maxA >= 1
                => /\ last_agent_diff.shape \in ProposalShapes
                   /\ last_agent_diff.id = proposeCalls

\* Round 2's refine is about to be called; the last proposal of round 1's
\* sub-loop was not diff-shaped.
C19_Witness ==
    /\ pc = "refine" /\ refine_round = 2 /\ maxA = 2 /\ proposeCalls = 4
    /\ last_agent_diff.shape = "prose"

\* C20: whenever propose_patch is about to be called, the system prompt it
\* builds is the fixed rules followed by the ledger as it stands, and holds
\* the bullet of every guideline the coach returned and the run merged so
\* far, in the current round and in earlier scenarios; a sub-loop's calls
\* come after the round's coach call.
C20_Bullet(g) == <<DASH, SP>> \o g \o <<NL>>

C20_Contains(text, part) ==
    \E i \in 0..(Len(text) - Len(part)) : SubSeq(text, i + 1, i + Len(part)) = part

C20_PromptHasCurrentLedger ==
    pc \in {"propose", "r_propose"}
       => /\ \A g \in learned : C20_Contains(BuildSystemPrompt, C20_Bullet(g))
          /\ \A i \in 1..Len(items) :
                C20_Contains(BuildSystemPrompt, C20_Bullet(items[i]))
          /\ pc = "r_propose" => (refineCalls = refine_round /\ refine_round >= 1)

\* First proposal of scenario 2's first round: one guideline was learned in
\* scenario 1, two more in this round.
C20_Witness ==
    /\ pc = "r_propose" /\ idx = 2 /\ run = 1 /\ refineCalls = 1 /\ attempt = 1
    /\ Cardinality(learned) = 3 /\ CountTags(log_buf, {"REFINE_GUIDES"}) = 1

(* ---------------------------------------------------------------------- *)
(* C21..C26                                                                *)
(* ---------------------------------------------------------------------- *)

\* The attempt in hand ends softly: no test run, and the loop goes on to the
\* next attempt, having used one unit of the budget, or is over.
C21_SoftEnd(next) ==
    /\ testRuns' = testRuns
    /\ \/ attempt < maxA /\ attempt' = attempt + 1 /\ pc' = next
       \/ attempt = maxA /\ attempt' = attempt /\ pc' \in {"refine", "final"}

\* C21: approval, clean, apply and test are reached only with the diff-shaped
\* text of the latest proposal; a test run follows an apply that succeeded;
\* apply follows the clean that follows an approval, which always proceeds
\* when require_approval is off; test runs are made only as baseline runs
\* and after a successful apply; an attempt stopped at a gate makes no
\* further call, uses one unit of the budget and the loop goes on.
C21_GateState ==
    /\ pc \in {"approve", "clean", "apply", "test",
                "r_approve", "r_clean", "r_apply", "r_test"}
          => (LooksLikeDiff(last_agent_diff) /\ last_agent_diff.id = proposeCalls)
    /\ pc \in {"test", "r_test"} => last_agent_diff.id \in edits

C21_GateStep ==
    /\ (pc' = "approve" /\ pc # pc') => pc = "propose"
    /\ (pc' = "r_approve" /\ pc # pc') => pc = "r_propose"
    /\ (pc' = "clean" /\ pc # pc') => pc = "approve"
    /\ (pc' = "r_clean" /\ pc # pc') => pc = "r_approve"
    /\ (pc' = "apply" /\ pc # pc') => pc = "clean"
    /\ (pc' = "r_apply" /\ pc # pc') => pc = "r_clean"
    /\ (pc' = "test" /\ pc # pc') => pc = "apply"
    /\ (pc' = "r_test" /\ pc # pc') => pc = "r_apply"
    /\ testRuns' > testRuns
          => pc \in {"baseline", "re_baseline", "test", "r_test"}
    /\ (pc = "approve" /\ ~requireApproval) => pc' = "clean"
    /\ (pc = "r_approve" /\ ~requireApproval) => pc' = "r_clean"
    /\ (pc = "propose" /\ pc' \notin {"approve", "aborted"})
          => (C21_SoftEnd("propose") /\ edits' = edits)
    /\ (pc = "approve" /\ pc' # "clean") => (C21_SoftEnd("propose") /\ edits' = edits)
    /\ (pc = "apply" /\ pc' # "test") => C21_SoftEnd("propose")
    /\ (pc = "r_propose" /\ pc' \notin {"r_approve", "aborted"})
          => (C21_SoftEnd("r_propose") /\ edits' = edits)
    /\ (pc = "r_approve" /\ pc' # "r_clean")
          => (C21_SoftEnd("r_propose") /\ edits' = edits)
    /\ (pc = "r_apply" /\ pc' # "r_test") => C21_SoftEnd("r_propose")

C21_GatingChain == [](C21_GateState) /\ [][C21_GateStep]_vars

\* Attempt 2 of a sub-loop is about to propose: attempt 1 was diff-shaped but
\* was stopped at the approval or at the apply (no test run in this round
\* but its baseline re-run).
C21_Witness ==
    /\ pc = "r_propose" /\ attempt = 2 /\ requireApproval
    /\ LooksLikeDiff(last_agent_diff) /\ failing_info = testRuns /\ edits = {}

\* C23: within a run, a step that changes Guidelines.items or the guidelines
\* file is the merge step of a refinement round whose coach result is not
\* empty (the round's refine call returns and its guidelines are logged); a
\* scenario that was skipped or fixed in the initial loop made no such step.
C23_MergeStep ==
    /\ pc = "refine" /\ pc' = "re_checkout"
    /\ refineCalls' = refineCalls + 1
    /\ Len(log_buf') = Len(log_buf) + 1
    /\ log_buf'[Len(log_buf')].tag = "REFINE_GUIDES"
    /\ log_buf'[Len(log_buf')].n >= 1

C23_FrameStep ==
    (run' = run /\ (items' # items \/ store' # store)) => C23_MergeStep

C23_FrameState ==
    (pc \in {"checkout", "done"}
       /\ (baseline \in {"none", "passed"} \/ "pass_initial" \in events))
       => refineCalls = 0

C23_LedgerFrame == [](C23_FrameState) /\ [][C23_FrameStep]_vars

\* Scenario 1 changed the ledger in a refinement round; scenario 2 was fixed
\* in the initial loop and left it as it was.
C23_Witness ==
    /\ pc = "done" /\ "pass_initial" \in events /\ run = 1
    /\ items # <<>> /\ store = SaveFile(items)

\* C25: a scenario in its attempt or refinement loop has no log written yet;
\* a step that writes a log writes the current scenario's, for the first
\* time, with the outcome marker already in the buffer, makes no
\* collaborator call and moves on to the next scenario; a scenario that
\* entered the attempt loop and ended has its log written once.
C25_LogState ==
    /\ (idx \in Scenarios /\ pc \notin {"done", "aborted"}) => logs[idx] = 0
    /\ \A i \in Scenarios : logs[i] <= 1
    /\ EndedAfterLoop => logs[idx - 1] = 1

C25_LogStep ==
    (run' = run /\ logs' # logs)
       => /\ baseline = "failed"
          /\ pc \in {"write_log", "final"}
          /\ logs' = [logs EXCEPT ![idx] = 1]
          /\ CountTags(log_buf', OutcomeTags) = 1
          /\ idx' = idx + 1 /\ pc' \in {"checkout", "done"}
          /\ proposeCalls' = proposeCalls /\ refineCalls' = refineCalls
          /\ testRuns' = testRuns /\ edits' = edits

C25_LogOnceAtTermination == [](C25_LogState) /\ [][C25_LogStep]_vars

\* Both scenarios entered the attempt loop: the first was fixed in the
\* initial loop, the second went through the refinement rounds and failed.
C25_Witness ==
    /\ pc = "done" /\ logs = [i \in Scenarios |-> 1]
    /\ HasTag(log_buf, "FAILED") /\ refineCalls = 2 /\ proposeCalls = 6

\* C26: for the scenario in hand and the one just ended: at most
\* maxA * (1 + maxR) propose_patch calls, at most maxA in the initial loop
\* and in each sub-loop (the attempt counter never exceeds maxA), at most
\* maxR refine calls; once a post-apply run has passed, no step makes a
\* further propose_patch or refine call for the scenario.
C26_BudgetState ==
    /\ proposeCalls <= maxA * (1 + maxR)
    /\ refineCalls <= maxR
    /\ attempt <= maxA
    /\ proposeCalls <= maxA * (1 + refineCalls)
    /\ pc \in {"propose", "approve", "clean", "apply", "test"}
          => (refineCalls = 0 /\ proposeCalls <= attempt)
    /\ pc \in {"r_propose", "r_approve", "r_clean", "r_apply", "r_test"}
          => proposeCalls <= maxA * refineCalls + attempt
    /\ (events \cap {"pass_initial", "pass_refine"}) # {}
          => pc \in {"write_log", "final", "checkout", "done"}

C26_BudgetStep ==
    ((events \cap {"pass_initial", "pass_refine"}) # {}
       /\ (events' \cap {"pass_initial", "pass_refine"}) # {})
       => (proposeCalls' = proposeCalls /\ refineCalls' = refineCalls)

C26_CallBudget == [](C26_BudgetState) /\ [][C26_BudgetStep]_vars

\* The last sub-loop attempt of the last round passed: the whole budget of
\* proposals and of refine calls was used.
C26_Witness ==
    /\ pc = "final" /\ "pass_refine" \in events /\ maxA = 2 /\ maxR = 2
    /\ proposeCalls = 6 /\ refineCalls = 2

\* Statements of one refinement round and of one scenario (an attempt has 5:
\* propose, approve, clean, apply, test).
C24_RoundLen == 3 + 5 * maxA
C24_ScenarioLen == 4 + 5 * maxA + maxR * C24_RoundLen

C24_Gate ==
    CASE pc \in {"propose", "r_propose"} -> 0
      [] pc \in {"approve", "r_approve"} -> 1
      [] pc \in {"clean", "r_clean"} -> 2
      [] pc \in {"apply", "r_apply"} -> 3
      [] OTHER -> 4

\* How far the scenario in hand has come.
C24_StepOf ==
    LET afterInitial == 2 + 5 * maxA
        round == afterInitial + 1 + (refine_round - 1) * C24_RoundLen
    IN CASE pc \in {"checkout", "done"} -> 0
         [] pc = "baseline" -> 1
         [] pc \in {"propose", "approve", "clean", "apply", "test"}
              -> 2 + 5 * (attempt - 1) + C24_Gate
         [] pc = "write_log" -> afterInitial
         [] pc = "refine" -> round
         [] pc = "re_checkout" -> round + 1
         [] pc = "re_baseline" -> round + 2
         [] pc \in {"r_propose", "r_approve", "r_clean", "r_apply", "r_test"}
              -> round + 3 + 5 * (attempt - 1) + C24_Gate
         [] OTHER -> C24_ScenarioLen - 1

\* How far the run has come.
C24_Position == (idx - 1) * C24_ScenarioLen + C24_StepOf

\* C24: when every collaborator call returns, the loop ends: the run
\* reaches the end of the scenario list; every step of a run
\* moves forward along a scale bounded by the number of scenarios and the
\* budgets; scenarios are taken one at a time in list order (the position in
\* the list stays or advances by one, and the loop has ended exactly when it
\* is past the last scenario).
C24_OrderState ==
    /\ idx \in 1..(NumScenarios + 1)
    /\ pc = "done" <=> idx = NumScenarios + 1
    /\ C24_Position <= NumScenarios * C24_ScenarioLen

C24_ForwardStep ==
    run' = run
       => /\ C24_Position' > C24_Position
          /\ idx' \in {idx, idx + 1}

C24_Terminates ==
    /\ <>(pc = "done")
    /\ [](C24_OrderState)
    /\ [][C24_ForwardStep]_vars

\* The loop has ended after two scenarios that used every attempt of every
\* round.
C24_Witness ==
    /\ pc = "done" /\ maxA = 2 /\ maxR = 2 /\ proposeCalls = 6
    /\ logs = [i \in Scenarios |-> 1] /\ events = {}

\* C22: whatever the completion, a JSON list or any other text, the result
\* of refine has at most 4 strings, none blank (each is stripped and not
\* empty), no two equal; the round's merge makes the ledger at most 4 longer,
\* and after an empty result the ledger and its store are as before and the
\* round goes on to the re-checkout that leads to its attempt sub-loop.
C22_ResultState ==
    out # NoCompletion
       => LET res == RefineResult(out)
          IN /\ Len(res) <= 4
             /\ \A i \in 1..Len(res) : res[i] # <<>> /\ Strip(res[i]) = res[i]
             /\ NoDuplicates(res)

C22_RoundStep ==
    (pc = "refine" /\ out # NoCompletion)
       => /\ Len(items') <= Len(items) + 4
          /\ IsPrefix(items, items')
          /\ pc' = "re_checkout"
          /\ RefineResult(out) = <<>> => (items' = items /\ store' = store)

C22_RefineResultBounded == [](C22_ResultState) /\ [][C22_RoundStep]_vars

\* A completion with five usable guidelines was cut to four and merged
\* after the one the ledger held, and the round has reached its sub-loop.
C22_Witness ==
    /\ pc = "r_propose" /\ Len(items) = 5 /\ items[1] = <<"a">>
    /\ log_buf[Len(log_buf)] = Entry("REFINE_GUIDES", 1, 4)

====
